---- MODULE Spec2Model ----
(***************************************************************************)
(* Model of restaurant_app.py: a Streamlit script that is re-run from top  *)
(* to bottom on every user gesture (a "render pass").  The state that      *)
(* survives between passes is st.session_state: the three sidebar widgets  *)
(* (criteria), the selection held by the map widget ("restaurant_map"),    *)
(* the selection held by the table widget ("restaurant_table") and the     *)
(* key "selected_restaurant".  One action = one gesture followed by the    *)
(* whole render pass it triggers.                                          *)
(*                                                                         *)
(* Ratings and slider values are in tenths (4.5 is 45).                    *)
(***************************************************************************)
EXTENDS Integers, Sequences, FiniteSets, TLC

VARIABLES
    selected_cuisine,     \* sidebar selectbox "Select Cuisine:"
    min_rating,           \* sidebar slider "Minimum Rating:" (tenths)
    selected_price,       \* sidebar selectbox "Price Range:"
    restaurant_map,       \* session_state["restaurant_map"].selection.points (pointIndex list)
    restaurant_table,     \* session_state["restaurant_table"].selection.rows
    selected_restaurant,  \* session_state.selected_restaurant (Absent = key not present)
    filtered_df,          \* filtered_df computed by the last pass
    error,                \* exception that ended the last pass ("none" if it completed)
    map_view,             \* what col1 showed in the last pass
    list_view,            \* what col2 showed in the last pass
    detail,               \* the record shown in the "Selected Restaurant" card
    event,                \* the gesture that triggered the last pass
    venues,               \* filter harness: the venue list given to the filter
    crit,                 \* filter harness: the criteria given to the filter
    out,                  \* filter harness: the filter's result
    fpc                   \* filter harness: "input" before, "applied" after a run ("idle" in a session)

vars == <<selected_cuisine, min_rating, selected_price, restaurant_map,
          restaurant_table, selected_restaurant, filtered_df, error,
          map_view, list_view, detail, event, venues, crit, out, fpc>>

appVars == <<selected_cuisine, min_rating, selected_price, restaurant_map,
             restaurant_table, selected_restaurant, filtered_df, error,
             map_view, list_view, detail, event>>

harnessVars == <<venues, crit, out, fpc>>

----------------------------------------------------------------------------
(* Bounds *)

\* longest venue list the filter harness enumerates
MaxLen == 3

----------------------------------------------------------------------------
(* Data *)

None == "None"
Absent == "<absent>"
NoDetail == [Name |-> None]

\* restaurants_data / df: the five sample records, in source order
df ==
  << [Name |-> "The Golden Spoon", Cuisine |-> "American Fine Dining",
      Rating |-> 45, Price_Range |-> "$$$",
      Address |-> "123 Main St, Downtown", Phone |-> "(555) 123-4567",
      Hours |-> "5:00 PM - 10:00 PM"],
     [Name |-> "Bella Vista Italian", Cuisine |-> "Italian",
      Rating |-> 42, Price_Range |-> "$$",
      Address |-> "456 Oak Ave, Little Italy", Phone |-> "(555) 234-5678",
      Hours |-> "11:00 AM - 9:00 PM"],
     [Name |-> "Sakura Sushi Bar", Cuisine |-> "Japanese",
      Rating |-> 47, Price_Range |-> "$$$",
      Address |-> "789 Pine Rd, Midtown", Phone |-> "(555) 345-6789",
      Hours |-> "12:00 PM - 10:00 PM"],
     [Name |-> "Taco Libre", Cuisine |-> "Mexican",
      Rating |-> 41, Price_Range |-> "$",
      Address |-> "321 Elm St, Arts District", Phone |-> "(555) 456-7890",
      Hours |-> "11:00 AM - 8:00 PM"],
     [Name |-> "The Coffee House", Cuisine |-> "Cafe",
      Rating |-> 43, Price_Range |-> "$$",
      Address |-> "654 Maple Dr, University Area", Phone |-> "(555) 567-8901",
      Hours |-> "7:00 AM - 6:00 PM"] >>

Range(s) == {s[i] : i \in 1..Len(s)}

Names(f) == {f[i].Name : i \in 1..Len(f)}

\* cuisine_options = ['All'] + list(df['Cuisine'].unique())
cuisine_options == {"All"} \cup {df[i].Cuisine : i \in 1..Len(df)}

\* price_options = ['All'] + list(df['Price Range'].unique())
price_options == {"All"} \cup {df[i].Price_Range : i \in 1..Len(df)}

\* st.sidebar.slider("Minimum Rating:", 1.0, 5.0, 1.0, 0.1), in tenths
slider_min == 10
slider_max == 50
slider_default == 10

\* the slider positions the model lets the user choose: the default and
\* every position from just below the lowest rating to just above the highest
slider_inputs == {v \in slider_min..slider_max : v = slider_default \/ (v >= 40 /\ v <= 48)}

----------------------------------------------------------------------------
(* Apply filters (lines 79-88) *)

\* variant of CuisineStep that leaves the first row out of the comparison
CuisineStep_skipfirst(f, cuisine) ==
    IF cuisine # "All"
    THEN SelectSeq(SubSeq(f, 2, Len(f)), LAMBDA v : v.Cuisine = cuisine)
    ELSE f

\* if selected_cuisine != 'All': filtered_df = filtered_df[filtered_df['Cuisine'] == selected_cuisine]
CuisineStep(f, cuisine) ==
    IF cuisine # "All" THEN SelectSeq(f, LAMBDA v : v.Cuisine = cuisine) ELSE f

\* variant of RatingStep with an exclusive lower bound
RatingStep_exclusive(f, rating) ==
    SelectSeq(f, LAMBDA v : v.Rating > rating)

\* variant of RatingStep with the comparison turned around
RatingStep_inverted(f, rating) ==
    SelectSeq(f, LAMBDA v : v.Rating <= rating)

\* filtered_df = filtered_df[filtered_df['Rating'] >= min_rating]
RatingStep(f, rating) ==
    SelectSeq(f, LAMBDA v : v.Rating >= rating)

Reverse(s) == [i \in 1..Len(s) |-> s[Len(s) + 1 - i]]

\* variant of PriceStep that returns the matching rows last-first
PriceStep_reordered(f, price) ==
    IF price # "All" THEN Reverse(SelectSeq(f, LAMBDA v : v.Price_Range = price)) ELSE f

\* if selected_price != 'All': filtered_df = filtered_df[filtered_df['Price Range'] == selected_price]
PriceStep(f, price) ==
    IF price # "All" THEN SelectSeq(f, LAMBDA v : v.Price_Range = price) ELSE f

\* the three steps in source order, starting from df.copy()
ApplyFilters(d, cuisine, rating, price) ==
    PriceStep(RatingStep(CuisineStep(d, cuisine), rating), price)

----------------------------------------------------------------------------
(* Click handling and detail display (lines 139-150, 176-200) *)

\* variant of HasRows that lets both columns take their non-empty branch
HasRows_always(f) == TRUE

\* lines 96 and 158: if len(filtered_df) > 0
HasRows(f) == Len(f) > 0

\* filtered_df.iloc[i]: positional, 0-based; IndexError when i is out of bounds
InBounds(f, i) == i >= 0 /\ i < Len(f)

iloc(f, i) == f[i + 1]

\* variant of InitSelected without the "not in st.session_state" test
InitSelected_always(sel) == None

\* lines 143-144: initialise the key on first use
InitSelected(sel) == IF sel = Absent THEN None ELSE sel

\* lines 147-150: does the map handler raise?
MapRaises(f, points) == points # <<>> /\ ~InBounds(f, points[1])

\* variant of MapHandler that resolves the point index in df
MapHandler_store(sel, f, points) ==
    IF points # <<>> THEN iloc(df, points[1]).Name ELSE sel

\* lines 147-150: the selection after the map handler
MapHandler(sel, f, points) ==
    IF points # <<>> THEN iloc(f, points[1]).Name ELSE sel

\* lines 177-180: does the table handler raise?
TableRaises(f, rows) == rows # <<>> /\ ~InBounds(f, rows[1])

\* lines 177-180: the selection after the table handler
TableHandler(sel, f, rows) ==
    IF rows # <<>> THEN iloc(f, rows[1]).Name ELSE sel

\* variant of ShowsCard without the membership test
ShowsCard_truthy(sel, f) == sel # None

\* line 183: the condition under which the "Selected Restaurant" card is shown
ShowsCard(sel, f) == sel # None /\ sel \in Names(f)

\* line 184: the rows of filtered_df whose Name is the selection
MatchingRows(sel, f) == SelectSeq(f, LAMBDA v : v.Name = sel)

\* line 184: .iloc[0] raises IndexError when no row matches
InfoRaises(sel, f) == MatchingRows(sel, f) = <<>>

\* variant of selected_info that takes the first row of the frame
selected_info_first(sel, f) == f[1]

\* line 184: filtered_df[filtered_df['Name'] == selected].iloc[0]
selected_info(sel, f) == MatchingRows(sel, f)[1]

----------------------------------------------------------------------------
(* One render pass (lines 79-202), run with the widget values given *)

RenderPass(cuisine, rating, price, points, rows, ev) ==
    LET f == ApplyFilters(df, cuisine, rating, price) IN
    /\ selected_cuisine' = cuisine
    /\ min_rating' = rating
    /\ selected_price' = price
    /\ restaurant_map' = points
    /\ restaurant_table' = rows
    /\ filtered_df' = f
    /\ event' = ev
    /\ UNCHANGED harnessVars
    /\ IF HasRows(f)
       THEN LET sel1 == InitSelected(selected_restaurant) IN
            IF MapRaises(f, points)
            THEN \* line 149 raises: the script stops after the chart was drawn
                 /\ selected_restaurant' = sel1
                 /\ error' = "IndexError"
                 /\ map_view' = "map"
                 /\ list_view' = "none"
                 /\ detail' = NoDetail
            ELSE LET sel2 == MapHandler(sel1, f, points) IN
                 IF TableRaises(f, rows)
                 THEN \* line 179 raises: the table was drawn, the detail was not
                      /\ selected_restaurant' = sel2
                      /\ error' = "IndexError"
                      /\ map_view' = "map"
                      /\ list_view' = "table"
                      /\ detail' = NoDetail
                 ELSE LET sel3 == TableHandler(sel2, f, rows) IN
                      /\ selected_restaurant' = sel3
                      /\ map_view' = "map"
                      /\ IF ShowsCard(sel3, f)
                         THEN IF InfoRaises(sel3, f)
                              THEN \* line 184 raises: no card is drawn
                                   /\ error' = "IndexError"
                                   /\ list_view' = "table"
                                   /\ detail' = NoDetail
                              ELSE \* lines 186-197: the card
                                   /\ error' = "none"
                                   /\ list_view' = "card"
                                   /\ detail' = selected_info(sel3, f)
                         ELSE \* lines 199-200: the tip
                              /\ error' = "none"
                              /\ list_view' = "tip"
                              /\ detail' = NoDetail
       ELSE \* lines 153 and 202: both columns show their empty state
            /\ selected_restaurant' = selected_restaurant
            /\ error' = "none"
            /\ map_view' = "info"
            /\ list_view' = "warning"
            /\ detail' = NoDetail

----------------------------------------------------------------------------
(* The session *)

Init ==
    /\ selected_cuisine = "All"
    /\ min_rating = slider_default
    /\ selected_price = "All"
    /\ restaurant_map = <<>>
    /\ restaurant_table = <<>>
    /\ selected_restaurant = Absent
    /\ filtered_df = <<>>
    /\ error = "none"
    /\ map_view = "none"
    /\ list_view = "none"
    /\ detail = NoDetail
    /\ event = "start"
    /\ venues = <<>>
    /\ crit = [cuisine |-> "All", min_rating |-> slider_default, price |-> "All"]
    /\ out = <<>>
    /\ fpc = "idle"

\* the first run of the script, with every widget at its default
FirstRun ==
    /\ event = "start"
    /\ RenderPass(selected_cuisine, min_rating, selected_price,
                  restaurant_map, restaurant_table, "first")

\* the user picks another cuisine in the sidebar
SetCuisine ==
    /\ event # "start"
    /\ \E c \in cuisine_options \ {selected_cuisine} :
          RenderPass(c, min_rating, selected_price,
                     restaurant_map, restaurant_table, "criteria")

\* the user moves the rating slider
SetMinRating ==
    /\ event # "start"
    /\ \E r \in slider_inputs \ {min_rating} :
          RenderPass(selected_cuisine, r, selected_price,
                     restaurant_map, restaurant_table, "criteria")

\* the user picks another price range in the sidebar
SetPrice ==
    /\ event # "start"
    /\ \E p \in price_options \ {selected_price} :
          RenderPass(selected_cuisine, min_rating, p,
                     restaurant_map, restaurant_table, "criteria")

\* the user clicks marker i of the map drawn by the last pass
MarkerClick ==
    /\ map_view = "map"
    /\ \E i \in 0..(Len(filtered_df) - 1) :
          /\ restaurant_map # <<i>>
          /\ RenderPass(selected_cuisine, min_rating, selected_price,
                        <<i>>, restaurant_table, "marker")

\* the map delivers a selection with no point: a click on the selected
\* marker again, or on an empty area of the map
MapClear ==
    /\ map_view = "map"
    /\ restaurant_map # <<>>
    /\ RenderPass(selected_cuisine, min_rating, selected_price,
                  <<>>, restaurant_table, "mapclear")

\* the user clicks row i of the table drawn by the last pass
RowClick ==
    /\ list_view \in {"table", "card", "tip"}
    /\ \E i \in 0..(Len(filtered_df) - 1) :
          /\ restaurant_table # <<i>>
          /\ RenderPass(selected_cuisine, min_rating, selected_price,
                        restaurant_map, <<i>>, "row")

\* the user clicks the selected row again: the table selection becomes empty
RowClear ==
    /\ list_view \in {"table", "card", "tip"}
    /\ restaurant_table # <<>>
    /\ RenderPass(selected_cuisine, min_rating, selected_price,
                  restaurant_map, <<>>, "rowclear")

Next ==
    \/ FirstRun
    \/ SetCuisine
    \/ SetMinRating
    \/ SetPrice
    \/ MarkerClick
    \/ MapClear
    \/ RowClick
    \/ RowClear

Spec == Init /\ [][Next]_vars

----------------------------------------------------------------------------
(* Filter harness: the filter of lines 79-88 applied to arbitrary venue    *)
(* lists.  The attribute values are taken from df; a harness venue carries *)
(* the three filtered columns and its position in the list as its Name.    *)

harness_cuisines == {"Italian", "Cafe"}
harness_ratings == {42, 45}
harness_prices == {"$", "$$"}

VenueListsOfLen(n) ==
    { [i \in 1..n |-> [Name |-> i, Cuisine |-> a[i][1], Rating |-> a[i][2],
                       Price_Range |-> a[i][3]]] :
        a \in [1..n -> harness_cuisines \X harness_ratings \X harness_prices] }

VenueLists == UNION {VenueListsOfLen(n) : n \in 0..MaxLen}

\* criteria offered to the harness: no constraint, values that occur, values
\* that never occur ("Japanese", 46), and rating bounds equal to a rating
Criteria ==
    [cuisine : {"All", "Italian", "Cafe", "Japanese"},
     min_rating : {42, 44, 45, 46},
     price : {"All", "$", "$$"}]

InitF ==
    /\ selected_cuisine = "All"
    /\ min_rating = slider_default
    /\ selected_price = "All"
    /\ restaurant_map = <<>>
    /\ restaurant_table = <<>>
    /\ selected_restaurant = Absent
    /\ filtered_df = <<>>
    /\ error = "none"
    /\ map_view = "none"
    /\ list_view = "none"
    /\ detail = NoDetail
    /\ event = "start"
    /\ venues \in VenueLists \cup {df}
    /\ crit = [cuisine |-> "All", min_rating |-> slider_default, price |-> "All"]
    /\ out = <<>>
    /\ fpc = "input"

\* run the filter on the harness list with some criteria
RunFilter ==
    \E c \in Criteria :
        /\ out' = ApplyFilters(venues, c.cuisine, c.min_rating, c.price)
        /\ crit' = c
        /\ fpc' = "applied"
        /\ UNCHANGED venues
        /\ UNCHANGED appVars

NextF == RunFilter

SpecF == InitF /\ [][NextF]_vars

----------------------------------------------------------------------------
(* Properties of the filter (checked under SpecF) *)

\* the reference filter: the three constraints as one conjunction
Keeps(v, c) ==
    /\ (c.cuisine = "All" \/ v.Cuisine = c.cuisine)
    /\ v.Rating >= c.min_rating
    /\ (c.price = "All" \/ v.Price_Range = c.price)

\* the three steps of the code in the five other orders
OtherOrders(d, c) ==
    { RatingStep(PriceStep(CuisineStep(d, c.cuisine), c.price), c.min_rating),
      PriceStep(CuisineStep(RatingStep(d, c.min_rating), c.cuisine), c.price),
      CuisineStep(PriceStep(RatingStep(d, c.min_rating), c.price), c.cuisine),
      RatingStep(CuisineStep(PriceStep(d, c.price), c.cuisine), c.min_rating),
      CuisineStep(RatingStep(PriceStep(d, c.price), c.min_rating), c.cuisine) }

\* C8: the filter keeps exactly the venues that satisfy the conjunction of
\* the cuisine, rating (inclusive) and price constraints, and the three
\* steps applied in any other order give the same result.
FilterMatchesReference ==
    fpc = "applied" =>
        /\ Range(out) = {v \in Range(venues) : Keeps(v, crit)}
        /\ \A o \in OtherOrders(venues, crit) : Range(o) = Range(out)

\* C8 witness: a run with all three constraints active that drops a venue
\* and keeps one whose rating equals the bound
FilterMatchesReferenceWitness ==
    /\ fpc = "applied"
    /\ crit.cuisine # "All"
    /\ crit.price # "All"
    /\ Len(out) >= 1
    /\ Len(out) < Len(venues)
    /\ \E i \in 1..Len(out) : out[i].Rating = crit.min_rating

RECURSIVE IsSubsequence(_, _)
IsSubsequence(s, t) ==
    IF s = <<>> THEN TRUE
    ELSE IF t = <<>> THEN FALSE
    ELSE IF Head(s) = Head(t) THEN IsSubsequence(Tail(s), Tail(t))
    ELSE IsSubsequence(s, Tail(t))

\* C10: the filtered set is a subsequence of the venue list: kept venues
\* keep their relative order, none is duplicated and none is added.
OrderPreserved ==
    fpc = "applied" =>
        /\ IsSubsequence(out, venues)
        /\ Cardinality(Names(out)) = Len(out)

\* C10 witness: a run that keeps two venues which were not adjacent in the
\* venue list, under a price constraint
OrderPreservedWitness ==
    /\ fpc = "applied"
    /\ crit.price # "All"
    /\ Len(out) >= 2
    /\ Len(out) < Len(venues)
    /\ out[1] = venues[1]
    /\ out[2] # venues[2]

\* C11: filtering the filter's output again with the same criteria returns
\* that output unchanged.
FilterIdempotent ==
    fpc = "applied" =>
        ApplyFilters(out, crit.cuisine, crit.min_rating, crit.price) = out

\* C11 witness: a run with a cuisine constraint that kept some venues and
\* dropped others
FilterIdempotentWitness ==
    /\ fpc = "applied"
    /\ crit.cuisine # "All"
    /\ Len(out) >= 2
    /\ Len(out) < Len(venues)

\* c2 tightens exactly one criterion of c1 and leaves the other two alone
Tightens(c1, c2) ==
    \/ /\ c2.min_rating > c1.min_rating
       /\ c2.cuisine = c1.cuisine
       /\ c2.price = c1.price
    \/ /\ c1.cuisine = "All"
       /\ c2.cuisine # "All"
       /\ c2.min_rating = c1.min_rating
       /\ c2.price = c1.price
    \/ /\ c1.price = "All"
       /\ c2.price # "All"
       /\ c2.min_rating = c1.min_rating
       /\ c2.cuisine = c1.cuisine

\* C12: tightening one criterion (a higher minimum rating, or a cuisine or
\* price instead of 'All') gives a subset of the filtered set, never a
\* larger one.
FilterMonotone ==
    fpc = "applied" =>
        \A c2 \in Criteria :
            Tightens(crit, c2) =>
                LET o2 == ApplyFilters(venues, c2.cuisine, c2.min_rating, c2.price)
                IN  /\ Range(o2) \subseteq Range(out)
                    /\ Len(o2) <= Len(out)

\* C12 witness: a run whose result shrinks, without becoming empty, when the
\* minimum rating is raised
FilterMonotoneWitness ==
    /\ fpc = "applied"
    /\ \E c2 \in Criteria :
          /\ c2.min_rating > crit.min_rating
          /\ Tightens(crit, c2)
          /\ LET o2 == ApplyFilters(venues, c2.cuisine, c2.min_rating, c2.price)
             IN  Len(o2) >= 1 /\ Len(o2) < Len(out)

----------------------------------------------------------------------------
(* Properties of the selection (checked under Spec) *)

\* the index a widget holds cannot be resolved in f
Stale(f, idx) == idx # <<>> /\ ~InBounds(f, idx[1])

\* C1: after every render pass the stored selection is None or the Name of
\* a venue of the filtered set computed in that pass.
SelectionInvariant ==
    event # "start" =>
        \/ selected_restaurant = None
        \/ selected_restaurant \in Names(filtered_df)

\* C2: a criteria change whose filtered set no longer contains the selected
\* venue resets the selection to None in that pass; and a criteria change
\* with no click held never brings a selection card back.
ResetOnCriteriaChange ==
    [][ /\ ( /\ event' = "criteria"
             /\ selected_restaurant \in Names(filtered_df)
             /\ selected_restaurant \notin Names(filtered_df') )
           => selected_restaurant' = None
        /\ ( /\ event' = "criteria"
             /\ list_view \in {"tip", "warning"}
             /\ restaurant_map' = <<>>
             /\ restaurant_table' = <<>> )
           => list_view' # "card" ]_vars

\* C3: a second click on the marker of the selected venue (the map then
\* delivers a selection with no point) leaves the selection None.
ToggleDeselects ==
    [][ ( /\ event' = "mapclear"
          /\ InBounds(filtered_df, restaurant_map[1])
          /\ selected_restaurant = iloc(filtered_df, restaurant_map[1]).Name )
        => selected_restaurant' = None ]_vars

\* C4: an empty-area click (no map point, no table row selected) while a
\* venue is selected sets the selection to None, whatever the venue.
EmptyClickUnselects ==
    [][ ( /\ event' = "mapclear"
          /\ restaurant_table' = <<>>
          /\ selected_restaurant \in Names(df) )
        => selected_restaurant' = None ]_vars

\* C5: a marker click or a row click with index i inside the filtered set
\* sets the selection to the Name of the venue at position i of the
\* filtered set of that pass.
ClickSelectsVenueAtIndex ==
    [][ /\ event' = "marker" =>
              selected_restaurant' = iloc(filtered_df', restaurant_map'[1]).Name
        /\ event' = "row" =>
              selected_restaurant' = iloc(filtered_df', restaurant_table'[1]).Name ]_vars

\* C6: last event wins: after a row click on venue a, a marker click on a
\* different venue b (criteria unchanged) makes b the selection.
LastEventWins ==
    [][ ( /\ event = "row"
          /\ event' = "marker"
          /\ restaurant_map'[1] # restaurant_table[1] )
        => selected_restaurant' = iloc(filtered_df, restaurant_map'[1]).Name ]_vars

\* C7: a criteria change whose filtered set still contains the selected
\* venue leaves the selection as it was.
CriteriaChangeKeepsSelection ==
    [][ ( /\ event' = "criteria"
          /\ selected_restaurant \in Names(filtered_df') )
        => selected_restaurant' = selected_restaurant ]_vars

\* C9: no pass ends in an exception, and a pass that finds a held marker or
\* row index outside a non-empty filtered set ends with the selection None.
NoErrorEscapes ==
    /\ error = "none"
    /\ ( /\ Len(filtered_df) > 0
         /\ (Stale(filtered_df, restaurant_map) \/ Stale(filtered_df, restaurant_table)) )
       => selected_restaurant = None

----------------------------------------------------------------------------
(* Properties of the detail panel and of the empty state (checked under Spec) *)

\* the last pass ran both click handlers to their end on a non-empty
\* filtered set, so it went on to the detail display of lines 182-200
PanelReached ==
    /\ event # "start"
    /\ Len(filtered_df) > 0
    /\ ~Stale(filtered_df, restaurant_map)
    /\ ~Stale(filtered_df, restaurant_table)

EmptyStateShown ==
    (event # "start" /\ Len(filtered_df) = 0) =>
        /\ error = "none"
        /\ map_view = "info"
        /\ list_view = "warning"
        /\ detail = NoDetail

\* C14 witness: an empty filtered set reached while a venue is selected and
\* both widgets still hold a click index
EmptyStateShownWitness ==
    /\ event = "criteria"
    /\ Len(filtered_df) = 0
    /\ selected_restaurant \in Names(df)
    /\ restaurant_map # <<>>
    /\ restaurant_table # <<>>
    /\ list_view = "warning"

----------------------------------------------------------------------------
(* Properties of the stored selection (checked under Spec) *)

\* C15: the first pass, run with no click, leaves the selection None; the
\* key, once created, is never removed; and the initialisation of lines
\* 143-144 never replaces a selection made in an earlier pass by None.
SelectionInitialisedOnce ==
    [][ /\ event' = "first" => selected_restaurant' = None
        /\ selected_restaurant # Absent => selected_restaurant' # Absent
        /\ selected_restaurant \in Names(df) =>
              selected_restaurant' \in Names(df) ]_vars

\* C15 witness: a pass that ran the initialisation test with no click held
\* by either widget and still has the selection of an earlier pass
SelectionInitialisedOnceWitness ==
    /\ event \in {"mapclear", "rowclear"}
    /\ Len(filtered_df) > 0
    /\ restaurant_map = <<>>
    /\ restaurant_table = <<>>
    /\ selected_restaurant \in Names(df)

EmptyPassLeavesSelection ==
    [][ /\ Len(filtered_df') = 0 =>
              /\ selected_restaurant' = selected_restaurant
              /\ error' = "none"
        /\ list_view' \in {"card", "tip"} => selected_restaurant' # Absent ]_vars

\* C17 witness: a criteria change emptied the filtered set while a venue
\* was selected and a click index was held, and the selection is still there
EmptyPassLeavesSelectionWitness ==
    /\ event = "criteria"
    /\ Len(filtered_df) = 0
    /\ error = "none"
    /\ selected_restaurant \in Names(df)
    /\ (restaurant_map # <<>> \/ restaurant_table # <<>>)

\* C18: every pass that changes the stored selection stores the Name of a
\* venue of that pass's filtered set (or None, when it creates the key), so
\* after every pass the selection is None or the Name of a venue of the
\* venue store.
WritesStoreFilteredNames ==
    [][ /\ selected_restaurant' # selected_restaurant =>
              \/ selected_restaurant = Absent /\ selected_restaurant' = None
              \/ selected_restaurant' \in Names(filtered_df')
        /\ selected_restaurant' \in {None} \cup Names(df) ]_vars

\* C18 witness: a marker click on a filtered set narrowed by the criteria
\* stored the Name found at that position of filtered_df, which is not the
\* Name at that position of df
WritesStoreFilteredNamesWitness ==
    /\ event = "marker"
    /\ error = "none"
    /\ restaurant_table = <<>>
    /\ Len(filtered_df) < Len(df)
    /\ selected_restaurant = iloc(filtered_df, restaurant_map[1]).Name
    /\ selected_restaurant # iloc(df, restaurant_map[1]).Name

====
